---- MODULE Spec2Model ----
(***************************************************************************)
(* Order store of the mock certificate-authority API (src/main.go): the    *)
(* map `orders`, the counter `nextID`, the guard `mu` (sync.RWMutex), the  *)
(* request handlers handleEnroll, handleStatus, handleCollect and          *)
(* handleRevoke, each run by a handler thread, and the issuance goroutine  *)
(* that handleEnroll spawns for every order.                               *)
(*                                                                         *)
(* A Go string is a (data pointer, length) pair that is loaded and stored  *)
(* word by word.  Order.Status is read by handleStatus and handleCollect   *)
(* after RUnlock, hence concurrently with the stores of the issuance       *)
(* goroutine and of handleRevoke: the model keeps the two words apart.     *)
(*                                                                         *)
(* mu.Lock() has two parts, as in sync.RWMutex: the caller first becomes   *)
(* the one writer (from then on RLock waits), then waits until the readers *)
(* that hold the guard have left.                                          *)
(***************************************************************************)
EXTENDS Integers, Sequences, FiniteSets, TLC

\* ------------------------------------------------------------- bounds
NumProcs == 2      \* handler threads serving requests concurrently
MaxOrders == 2     \* enroll requests accepted in a run of the POST routes alone
MaxPolled == 1     \* enroll requests accepted in a run with the GET routes

\* ---------------------------------------------------------- constants
BaseID == 12345    \* initial value of nextID

Procs == 1 .. NumProcs
NoOwner == 0       \* mu is not write-locked
Nil == 0           \* nil *Order

FakeCert == "-----BEGIN CERTIFICATE-----\nMIIQD...... (Mock Certificate Data) ......\n......\n......\n-----END CERTIFICATE-----"

CSRs == {"CSR-A", "CSR-B"}

\* ------------------------------------------------------------ strings
\* A string is a sequence of one-character strings.
Digit == <<"0", "1", "2", "3", "4", "5", "6", "7", "8", "9">>

DigitVal(c) == CHOOSE d \in 0 .. 9 : Digit[d + 1] = c

IsDigit(c) == \E d \in 0 .. 9 : Digit[d + 1] = c

RECURSIVE Decimal(_)
Decimal(n) == IF n < 10 THEN <<Digit[n + 1]>>
              ELSE Append(Decimal(n \div 10), Digit[(n % 10) + 1])

\* fmt.Sprintf("%d", n)
Sprintf(n) == IF n < 0 THEN <<"-">> \o Decimal(0 - n) ELSE Decimal(n)

RECURSIVE SkipSpace(_)
SkipSpace(s) == IF s # <<>> /\ Head(s) = " " THEN SkipSpace(Tail(s)) ELSE s

RECURSIVE ScanDigits(_, _, _)
\* longest prefix of digits of s: [n |-> how many, val |-> their value]
ScanDigits(s, n, val) ==
    IF s # <<>> /\ IsDigit(Head(s))
    THEN ScanDigits(Tail(s), n + 1, 10 * val + DigitVal(Head(s)))
    ELSE [n |-> n, val |-> val]

\* fmt.Sscanf(s, "%d", &v): leading blanks, an optional sign, then digits;
\* whatever follows the digits is left unread and is no error.
Sscanf(s) ==
    LET t == SkipSpace(s)
        neg == t # <<>> /\ Head(t) = "-"
        u == IF t # <<>> /\ Head(t) \in {"+", "-"} THEN Tail(t) ELSE t
        d == ScanDigits(u, 0, 0)
    IN  IF d.n = 0 THEN [err |-> TRUE, val |-> 0]
        ELSE [err |-> FALSE, val |-> IF neg THEN 0 - d.val ELSE d.val]

\* --------------------------------------------------- Order.Status words
StatusLits == {"pending", "issued", "revoked"}

\* the bytes at the data pointer of each literal; the byte after "issued"
\* belongs to whatever the linker placed next
Bytes(lit) ==
    CASE lit = "pending" -> <<"p", "e", "n", "d", "i", "n", "g">>
      [] lit = "issued" -> <<"i", "s", "s", "u", "e", "d", "?">>
      [] lit = "revoked" -> <<"r", "e", "v", "o", "k", "e", "d">>

StrOf(lit) == [ptr |-> lit, len |-> IF lit = "issued" THEN 6 ELSE 7]

Pending == StrOf("pending")
Issued == StrOf("issued")
Revoked == StrOf("revoked")

\* the string a (pointer, length) pair denotes
GoString(st) == SubSeq(Bytes(st.ptr), 1, st.len)

\* one of the two word stores of `o.Status = new`
StoreWord(cur, new, word) ==
    IF word = "ptr" THEN [cur EXCEPT !.ptr = new.ptr]
    ELSE [cur EXCEPT !.len = new.len]

\* the results of two word loads, one of them taken when the string was
\* `first` and the other when it was `second`
LoadWords(first, second) ==
    {[ptr |-> first.ptr, len |-> second.len], [ptr |-> second.ptr, len |-> first.len]}

\* -------------------------------------------------------------- state
VARIABLES
    orders,     \* the map: order id -> Order (the key is the pointer to it)
    nextID,     \* the next order id
    muW,        \* mu: the thread or goroutine between Lock and Unlock, or NoOwner
    muR,        \* mu: the handler threads holding RLock
    pc,         \* handler thread -> where it is in its handler
    req,        \* handler thread -> the request it serves
    loc,        \* handler thread -> the handler's local variables
    task,       \* order id -> where its issuance goroutine is
    clock,      \* the number of readings of time.Now() so far
    out,        \* the response written by the last step, with its request
    allocated,  \* history: the ids read from nextID, in the order of the reads
    retCount,   \* history: order id -> number of enroll responses carrying it
    snap,       \* history: handler thread -> what held when its request began
    revoked     \* history: order id -> "no", or when a revoke last stored to it

vars == <<orders, nextID, muW, muR, pc, req, loc, task, clock, out,
          allocated, retCount, snap, revoked>>

store == <<orders, nextID>>
guard == <<muW, muR>>
hist == <<allocated, retCount, revoked>>

AllIDs == BaseID .. (BaseID + MaxOrders)

\* variant: an order is created already issued
NewOrderIssued(id, csr, cert, now) ==
    [ID |-> id, CSR |-> csr, Status |-> Issued, Certificate |-> cert,
     CreatedAt |-> now]

\* type Order struct
NewOrder(id, csr, cert, now) ==
    [ID |-> id, CSR |-> csr, Status |-> Pending, Certificate |-> cert,
     CreatedAt |-> now]

NoReq == [op |-> "none", method |-> "", bodyOk |-> TRUE, csr |-> "", str |-> <<>>]
NoLoc == [orderID |-> 0, o |-> Nil, ok |-> FALSE, st |-> Pending, found |-> FALSE]
NoResp == [code |-> 0, msg |-> "", sslId |-> 0, result |-> "", status |-> <<>>,
           cert |-> ""]
NoSnap == [returned |-> FALSE, fired |-> FALSE]
NoOut == [p |-> 0, req |-> NoReq, loc |-> NoLoc, snap |-> NoSnap, resp |-> NoResp]

Init ==
    /\ orders = <<>>
    /\ nextID = BaseID
    /\ muW = NoOwner
    /\ muR = {}
    /\ pc = [p \in Procs |-> "idle"]
    /\ req = [p \in Procs |-> NoReq]
    /\ loc = [p \in Procs |-> NoLoc]
    /\ task = <<>>
    /\ clock = 0
    /\ out = NoOut
    /\ allocated = <<>>
    /\ retCount = [i \in AllIDs |-> 0]
    /\ snap = [p \in Procs |-> NoSnap]
    /\ revoked = [i \in AllIDs |-> "no"]

\* -------------------------------------------------------------- guard
\* variant: a writer does not wait for the other writer
CanLockWAlways(w) == TRUE

\* mu.Lock(), first part: the caller becomes the writer when no other thread
\* is between Lock and Unlock
CanLockW(w) == w = NoOwner

\* variant: Lock does not wait for the other holders
CanLockAlways(w, r) == TRUE

\* mu.Lock(), second part: the writer gets the guard when the readers that
\* hold it have left
CanLock(w, r) == w # NoOwner /\ r = {}

\* variant: RLock does not wait for the writer
CanRLockAlways(w) == TRUE

\* mu.RLock() returns when no thread is between Lock and Unlock
CanRLock(w) == w = NoOwner

\* ----------------------------------------------------------- requests
\* the strings a client sends as the {id} path segment or as sslId
IdStrings == {Sprintf(i) : i \in AllIDs} \cup {<<"0">> \o Sprintf(BaseID)}

EnrollReqs(csrs) ==
    {[op |-> "enroll", method |-> "GET", bodyOk |-> TRUE, csr |-> "", str |-> <<>>],
     [op |-> "enroll", method |-> "POST", bodyOk |-> FALSE, csr |-> "", str |-> <<>>]}
        \cup {[op |-> "enroll", method |-> "POST", bodyOk |-> TRUE, csr |-> c,
               str |-> <<>>] : c \in csrs}

PathReqs(op) ==
    {[op |-> op, method |-> "POST", bodyOk |-> TRUE, csr |-> "", str |-> <<>>]}
        \cup {[op |-> op, method |-> "GET", bodyOk |-> TRUE, csr |-> "", str |-> s]
                : s \in IdStrings \cup {<<"x">>}}

\* strings that fmt.Sscanf reads as the first id without being its rendering:
\* a sign, a leading blank, trailing characters
NonCanonical ==
    {<<"+">> \o Sprintf(BaseID), <<" ">> \o Sprintf(BaseID), Sprintf(BaseID) \o <<"x">>}

\* the strings a client sends as sslId
SslIds == IdStrings \cup NonCanonical

\* the revoke requests whose sslId is one of strs
RevokeReqsOf(strs) ==
    {[op |-> "revoke", method |-> "GET", bodyOk |-> TRUE, csr |-> "", str |-> <<>>],
     [op |-> "revoke", method |-> "POST", bodyOk |-> FALSE, csr |-> "", str |-> <<>>]}
        \cup {[op |-> "revoke", method |-> "POST", bodyOk |-> TRUE, csr |-> "",
               str |-> s] : s \in strs}

RevokeReqs == RevokeReqsOf(IdStrings)

HttpError(code, msg) == [NoResp EXCEPT !.code = code, !.msg = msg]

\* enroll requests that have not yet read nextID
EnrollsWaiting == Cardinality({q \in Procs : pc[q] \in {"e_lock", "e_wait"}})

\* what holds of order x when a request about it begins
SnapOf(x) ==
    [returned |-> x \in AllIDs /\ retCount[x] > 0,
     fired |-> x \in DOMAIN task /\ task[x] = "done"]

\* A handler thread takes a request up to its first use of the guard.
Begin(p, r, first, orderID, sn) ==
    /\ pc[p] = "idle"
    /\ req' = [req EXCEPT ![p] = r]
    /\ loc' = [loc EXCEPT ![p] = [NoLoc EXCEPT !.orderID = orderID]]
    /\ pc' = [pc EXCEPT ![p] = first]
    /\ snap' = [snap EXCEPT ![p] = sn]
    /\ out' = NoOut
    /\ UNCHANGED <<store, guard, task, clock>>

\* A handler thread writes its response and is free for the next request.
Respond(p, r, l, rsp) ==
    /\ out' = [p |-> p, req |-> r, loc |-> l, snap |-> snap[p], resp |-> rsp]
    /\ pc' = [pc EXCEPT ![p] = "idle"]
    /\ req' = [req EXCEPT ![p] = NoReq]
    /\ loc' = [loc EXCEPT ![p] = NoLoc]
    /\ snap' = [snap EXCEPT ![p] = NoSnap]

\* A handler thread answers a request without using the guard.
Reject(p, r, code, msg) ==
    /\ pc[p] = "idle"
    /\ Respond(p, r, NoLoc, HttpError(code, msg))
    /\ UNCHANGED <<store, guard, task, clock, hist>>

\* -------------------------------------------------------- handleEnroll
\* variant: the increment is lost
IncIDLost(n) == n

\* variant: the counter skips an id
IncIDTwice(n) == n + 2

\* nextID++
IncID(n) == n + 1

EnrollBegin(p, max, csrs) ==
    \E r \in EnrollReqs(csrs) :
        IF r.method # "POST" THEN Reject(p, r, 405, "Method not allowed")
        ELSE IF ~r.bodyOk THEN Reject(p, r, 400, "Invalid request body")
        ELSE /\ (nextID - BaseID) + EnrollsWaiting < max
             /\ Begin(p, r, "e_lock", 0, NoSnap)
             /\ UNCHANGED hist

\* mu.Lock(), first part, by handler thread p
LockW(p, at, next) ==
    /\ pc[p] = at
    /\ CanLockW(muW)
    /\ muW' = p
    /\ pc' = [pc EXCEPT ![p] = next]
    /\ out' = NoOut
    /\ UNCHANGED <<store, muR, req, loc, task, clock, hist, snap>>

EnrollLockW(p) == LockW(p, "e_lock", "e_wait")

\* mu.Lock() returns; orderID := nextID
EnrollLock(p) ==
    /\ pc[p] = "e_wait"
    /\ CanLock(muW, muR)
    /\ loc' = [loc EXCEPT ![p].orderID = nextID]
    /\ allocated' = Append(allocated, nextID)
    /\ pc' = [pc EXCEPT ![p] = "e_inc"]
    /\ out' = NoOut
    /\ UNCHANGED <<store, guard, req, task, clock, retCount, snap, revoked>>

EnrollInc(p) ==
    /\ pc[p] = "e_inc"
    /\ nextID' = IncID(nextID)
    /\ pc' = [pc EXCEPT ![p] = "e_store"]
    /\ out' = NoOut
    /\ UNCHANGED <<orders, guard, req, loc, task, clock, hist, snap>>

\* cert := generateFakeCert(); orders[orderID] = &Order{..., time.Now()}
EnrollStore(p) ==
    /\ pc[p] = "e_store"
    /\ clock' = clock + 1
    /\ orders' = (loc[p].orderID :> NewOrder(loc[p].orderID, req[p].csr, FakeCert, clock'))
                    @@ orders
    /\ pc' = [pc EXCEPT ![p] = "e_unlock"]
    /\ out' = NoOut
    /\ UNCHANGED <<nextID, guard, req, loc, task, hist, snap>>

EnrollUnlock(p) ==
    /\ pc[p] = "e_unlock"
    /\ muW' = IF muW = p THEN NoOwner ELSE muW
    /\ pc' = [pc EXCEPT ![p] = "e_spawn"]
    /\ out' = NoOut
    /\ UNCHANGED <<store, muR, req, loc, task, clock, hist, snap>>

\* go func(id int) {...}(orderID), then the response
EnrollSpawn(p) ==
    /\ pc[p] = "e_spawn"
    /\ task' = IF loc[p].orderID \in DOMAIN task THEN task
               ELSE (loc[p].orderID :> "sleep") @@ task
    /\ retCount' = [retCount EXCEPT ![loc[p].orderID] = @ + 1]
    /\ Respond(p, req[p], loc[p],
               [NoResp EXCEPT !.code = 200, !.sslId = loc[p].orderID,
                              !.msg = "Order created successfully"])
    /\ UNCHANGED <<store, guard, clock, allocated, revoked>>

\* ------------------------------------------------- issuance goroutine
\* variant: the goroutine issues only an order that is still pending
IssueStatusIfPending(old) == IF old = Pending THEN Issued ELSE old

\* variant: the goroutine stores nothing new
IssueStatusKept(old) == old

\* variant: the goroutine leaves a revoked order alone
IssueStatusUnlessRevoked(old) == IF old.ptr = "revoked" THEN old ELSE Issued

\* the status the goroutine stores over `old`
IssueStatus(old) == Issued

\* time.Sleep(5 * time.Second) is over; mu.Lock(), first part
IssueLockW(id) ==
    /\ id \in DOMAIN task
    /\ task[id] = "sleep"
    /\ CanLockW(muW)
    /\ muW' = id
    /\ task' = [task EXCEPT ![id] = "wait"]
    /\ out' = NoOut
    /\ UNCHANGED <<store, muR, pc, req, loc, clock, hist, snap>>

\* mu.Lock() returns;
\* if o, ok := orders[id]; ok { o.Status = "issued" }: the first word
IssueLock(id) ==
    /\ id \in DOMAIN task
    /\ task[id] = "wait"
    /\ CanLock(muW, muR)
    /\ IF id \in DOMAIN orders
       THEN /\ \E word \in {"ptr", "len"} :
                  orders' = [orders EXCEPT ![id].Status =
                                StoreWord(@, IssueStatus(@), word)]
            /\ task' = [task EXCEPT ![id] = "half"]
       ELSE /\ task' = [task EXCEPT ![id] = "stored"]
            /\ UNCHANGED orders
    /\ out' = NoOut
    /\ UNCHANGED <<nextID, guard, pc, req, loc, clock, hist, snap>>

\* o.Status = "issued": the other word
IssueStore2(id) ==
    /\ id \in DOMAIN task
    /\ task[id] = "half"
    /\ orders' = [orders EXCEPT ![id].Status = IssueStatus(@)]
    /\ task' = [task EXCEPT ![id] = "stored"]
    /\ out' = NoOut
    /\ UNCHANGED <<nextID, guard, pc, req, loc, clock, hist, snap>>

IssueUnlock(id) ==
    /\ id \in DOMAIN task
    /\ task[id] = "stored"
    /\ muW' = IF muW = id THEN NoOwner ELSE muW
    /\ task' = [task EXCEPT ![id] = "done"]
    /\ out' = NoOut
    /\ UNCHANGED <<store, muR, pc, req, loc, clock, hist, snap>>

\* ------------------------------------------ handleStatus, handleCollect
\* variant: a missing key falls back to some stored order
LookupAny(m, k) ==
    IF k \in DOMAIN m THEN k
    ELSE IF DOMAIN m # {} THEN CHOOSE x \in DOMAIN m : TRUE ELSE Nil

\* variant: only an issued order is found
LookupIssued(m, k) == IF k \in DOMAIN m /\ m[k].Status = Issued THEN k ELSE Nil

\* order, ok := orders[orderID]: the pointer stored under the key, or nil
Lookup(m, k) == IF k \in DOMAIN m THEN k ELSE Nil

\* the method check and the parse of the {id} path segment; every path the
\* mux routes to these handlers has the six segments the handlers ask for
PathBegin(p, op, first) ==
    \E r \in PathReqs(op) :
        IF r.method # "GET" THEN Reject(p, r, 405, "Method not allowed")
        ELSE IF Sscanf(r.str).err THEN Reject(p, r, 400, "Invalid Order ID format")
        ELSE /\ Begin(p, r, first, Sscanf(r.str).val, SnapOf(Sscanf(r.str).val))
             /\ UNCHANGED hist

\* mu.RLock(); order, ok := orders[orderID]
PathRLock(p, at, next) ==
    /\ pc[p] = at
    /\ CanRLock(muW)
    /\ muR' = muR \cup {p}
    /\ loc' = [loc EXCEPT ![p].o = Lookup(orders, loc[p].orderID),
                          ![p].ok = Lookup(orders, loc[p].orderID) # Nil]
    /\ pc' = [pc EXCEPT ![p] = next]
    /\ out' = NoOut
    /\ UNCHANGED <<store, muW, req, task, clock, hist, snap>>

\* mu.RUnlock(); if !ok { 404 }
PathRUnlock(p, at, next) ==
    /\ pc[p] = at
    /\ muR' = muR \ {p}
    /\ IF loc[p].ok
       THEN /\ pc' = [pc EXCEPT ![p] = next]
            /\ out' = NoOut
            /\ UNCHANGED <<req, loc, snap>>
       ELSE Respond(p, req[p], loc[p], HttpError(404, "Order not found"))
    /\ UNCHANGED <<store, muW, task, clock, hist>>

\* the first word load of a read of order.Status
LoadFirst(p, at, next) ==
    /\ pc[p] = at
    /\ loc' = [loc EXCEPT ![p].st = orders[loc[p].o].Status]
    /\ pc' = [pc EXCEPT ![p] = next]
    /\ out' = NoOut
    /\ UNCHANGED <<store, guard, req, task, clock, hist, snap>>

StatusBegin(p) == PathBegin(p, "status", "s_rlock")

StatusRLock(p) == PathRLock(p, "s_rlock", "s_runlock")

StatusRUnlock(p) == PathRUnlock(p, "s_runlock", "s_load")

StatusLoad1(p) == LoadFirst(p, "s_load", "s_load2")

\* "status": order.Status, the second word load, and the response
StatusLoad2(p) ==
    /\ pc[p] = "s_load2"
    /\ \E st \in LoadWords(loc[p].st, orders[loc[p].o].Status) :
        Respond(p, req[p], [loc[p] EXCEPT !.st = st],
                [NoResp EXCEPT !.code = 200, !.sslId = loc[p].orderID,
                               !.status = GoString(st)])
    /\ UNCHANGED <<store, guard, task, clock, hist>>

IssuedLit == <<"i", "s", "s", "u", "e", "d">>

\* variant: everything but a pending order is released
ReadyUnlessPending(st) == GoString(st) # GoString(Pending)

\* variant: everything but a revoked order is released
ReadyUnlessRevoked(st) == GoString(st) # GoString(Revoked)

\* the negation of `order.Status != "issued"`
Ready(st) == GoString(st) = IssuedLit

CollectBegin(p) == PathBegin(p, "collect", "c_rlock")

CollectRLock(p) == PathRLock(p, "c_rlock", "c_runlock")

CollectRUnlock(p) == PathRUnlock(p, "c_runlock", "c_load")

CollectLoad1(p) == LoadFirst(p, "c_load", "c_load2")

\* if order.Status != "issued": the second word load, and the test
CollectCheck(p) ==
    /\ pc[p] = "c_load2"
    /\ \E st \in LoadWords(loc[p].st, orders[loc[p].o].Status) :
        /\ loc' = [loc EXCEPT ![p].st = st]
        /\ pc' = [pc EXCEPT ![p] = IF Ready(st) THEN "c_cert" ELSE "c_msg"]
    /\ out' = NoOut
    /\ UNCHANGED <<store, guard, req, task, clock, hist, snap>>

\* "Certificate not ready (status: "+order.Status+")": order.Status is read
\* again, first word
CollectMsg1(p) == LoadFirst(p, "c_msg", "c_msg2")

\* the second word, and the 400 response
CollectMsg2(p) ==
    /\ pc[p] = "c_msg2"
    /\ \E st \in LoadWords(loc[p].st, orders[loc[p].o].Status) :
        Respond(p, req[p], [loc[p] EXCEPT !.st = st],
                [NoResp EXCEPT !.code = 400, !.msg = "Certificate not ready",
                               !.status = GoString(st)])
    /\ UNCHANGED <<store, guard, task, clock, hist>>

\* w.Write([]byte(order.Certificate))
CollectCert(p) ==
    /\ pc[p] = "c_cert"
    /\ Respond(p, req[p], loc[p],
               [NoResp EXCEPT !.code = 200, !.sslId = loc[p].orderID,
                              !.cert = orders[loc[p].o].Certificate])
    /\ UNCHANGED <<store, guard, task, clock, hist>>

\* -------------------------------------------------------- handleRevoke
\* variant: the ids are compared as numbers
MatchParsed(o, sslId) == ~Sscanf(sslId).err /\ Sscanf(sslId).val = o.ID

\* variant: the rendering is compared with the beginning of sslId
MatchPrefix(o, sslId) ==
    /\ Len(sslId) >= Len(Sprintf(o.ID))
    /\ SubSeq(sslId, 1, Len(Sprintf(o.ID))) = Sprintf(o.ID)

\* fmt.Sprintf("%d", o.ID) == req.SslId
Match(o, sslId) == Sprintf(o.ID) = sslId

\* variant: only an issued order is revoked
RevokeStatusIfIssued(old) == IF old = Issued THEN Revoked ELSE old

\* variant: revoking a revoked order reinstates it
RevokeStatusToggle(old) == IF old = Revoked THEN Pending ELSE Revoked

\* the status handleRevoke stores over `old`
RevokeStatus(old) == Revoked

\* the method and body checks; the result and the error of
\* fmt.Sscanf(req.SslId, "%d", &orderID) are never used afterwards
RevokeBeginOf(p, reqs) ==
    \E r \in reqs :
        IF r.method # "POST" THEN Reject(p, r, 405, "Method not allowed")
        ELSE IF ~r.bodyOk THEN Reject(p, r, 400, "Invalid request body")
        ELSE /\ Begin(p, r, "r_lock", Sscanf(r.str).val, NoSnap)
             /\ UNCHANGED hist

RevokeBegin(p) == RevokeBeginOf(p, RevokeReqs)

RevokeLockW(p) == LockW(p, "r_lock", "r_wait")

\* mu.Lock() returns; for _, o := range orders: the iterations that do not
\* match only read; the range visits the keys in any order, so any matching
\* order may be the first one met; then the first word of o.Status = "revoked"
RevokeLock(p) ==
    /\ pc[p] = "r_wait"
    /\ CanLock(muW, muR)
    /\ LET M == {k \in DOMAIN orders : Match(orders[k], req[p].str)}
       IN  IF M = {}
           THEN /\ pc' = [pc EXCEPT ![p] = "r_unlock"]
                /\ UNCHANGED <<orders, loc, revoked>>
           ELSE \E k \in M, word \in {"ptr", "len"} :
                /\ orders' = [orders EXCEPT ![k].Status =
                                 StoreWord(@, RevokeStatus(@), word)]
                /\ loc' = [loc EXCEPT ![p].o = k]
                /\ pc' = [pc EXCEPT ![p] = "r_half"]
                /\ revoked' = [revoked EXCEPT ![k] =
                                  IF k \in DOMAIN task /\ task[k] = "done"
                                  THEN "late" ELSE "early"]
    /\ out' = NoOut
    /\ UNCHANGED <<nextID, guard, req, task, clock, allocated, retCount, snap>>

\* the other word of o.Status = "revoked"; found = true; break
RevokeStore2(p) ==
    /\ pc[p] = "r_half"
    /\ orders' = [orders EXCEPT ![loc[p].o].Status = RevokeStatus(@)]
    /\ loc' = [loc EXCEPT ![p].found = TRUE]
    /\ pc' = [pc EXCEPT ![p] = "r_unlock"]
    /\ out' = NoOut
    /\ UNCHANGED <<nextID, guard, req, task, clock, hist, snap>>

\* mu.Unlock(), then the response
RevokeUnlock(p) ==
    /\ pc[p] = "r_unlock"
    /\ muW' = IF muW = p THEN NoOwner ELSE muW
    /\ Respond(p, req[p], loc[p],
               IF loc[p].found
               THEN [NoResp EXCEPT !.code = 200, !.result = "success",
                                   !.msg = "Certificate revoked"]
               ELSE [NoResp EXCEPT !.code = 200, !.result = "failure",
                                   !.msg = "Order not found"])
    /\ UNCHANGED <<store, muR, task, clock, hist>>

\* --------------------------------------------------------------- spec
\* the steps of the POST handlers after the request is taken
WriterStep(p) ==
    \/ EnrollLockW(p)
    \/ EnrollLock(p)
    \/ EnrollInc(p)
    \/ EnrollStore(p)
    \/ EnrollUnlock(p)
    \/ EnrollSpawn(p)
    \/ RevokeLockW(p)
    \/ RevokeLock(p)
    \/ RevokeStore2(p)
    \/ RevokeUnlock(p)

\* the steps of the GET handlers after the request is taken
ReaderStep(p) ==
    \/ StatusRLock(p)
    \/ StatusRUnlock(p)
    \/ StatusLoad1(p)
    \/ StatusLoad2(p)
    \/ CollectRLock(p)
    \/ CollectRUnlock(p)
    \/ CollectLoad1(p)
    \/ CollectCheck(p)
    \/ CollectMsg1(p)
    \/ CollectMsg2(p)
    \/ CollectCert(p)

IssueStep(id) ==
    \/ IssueLockW(id)
    \/ IssueLock(id)
    \/ IssueStore2(id)
    \/ IssueUnlock(id)

\* Thread 1 serves the POST routes (enroll, revoke) and the other threads the
\* GET routes (status, collect), next to the issuance goroutines.
Posters == {1}
Getters == Procs \ Posters

Next ==
    \/ \E p \in Posters : EnrollBegin(p, MaxPolled, CSRs)
    \/ \E p \in Posters : RevokeBegin(p)
    \/ \E p \in Getters : StatusBegin(p)
    \/ \E p \in Getters : CollectBegin(p)
    \/ \E p \in Posters : WriterStep(p)
    \/ \E p \in Getters : ReaderStep(p)
    \/ \E id \in AllIDs : IssueStep(id)

Spec == Init /\ [][Next]_vars

\* Every thread serves the POST routes, next to the issuance goroutines; the
\* client behind a thread submits the same signing request every time.
ClientCSR(p) == IF p % 2 = 1 THEN "CSR-A" ELSE "CSR-B"

NextPost ==
    \/ \E p \in Procs : EnrollBegin(p, MaxOrders, {ClientCSR(p)})
    \/ \E p \in Procs : RevokeBegin(p)
    \/ \E p \in Procs : WriterStep(p)
    \/ \E id \in AllIDs : IssueStep(id)

SpecPost == Init /\ [][NextPost]_vars

\* Thread 1 serves the enroll route and the other threads the routes revoke,
\* status and collect, next to the issuance goroutines; the clients also send
\* sslId strings that are no rendering of an id.
Enrollers == {1}
Servers == Procs \ Enrollers

NextMix ==
    \/ \E p \in Enrollers : EnrollBegin(p, MaxOrders, {ClientCSR(p)})
    \/ \E p \in Servers : RevokeBeginOf(p, RevokeReqsOf(SslIds))
    \/ \E p \in Servers : StatusBegin(p)
    \/ \E p \in Servers : CollectBegin(p)
    \/ \E p \in Procs : WriterStep(p)
    \/ \E p \in Servers : ReaderStep(p)
    \/ \E id \in AllIDs : IssueStep(id)

SpecMix == Init /\ [][NextMix]_vars

\* Scheduling: a goroutine that can run does run, time.Sleep returns, and a
\* goroutine blocked in the first part of mu.Lock or in mu.RLock gets its
\* turn when the writer has unlocked often enough (sync.RWMutex queues the
\* writers on a starvation-free sync.Mutex and lets the waiting readers in
\* when the writer unlocks).
Fairness ==
    /\ \A p \in Posters : SF_vars(WriterStep(p))
    /\ \A p \in Getters : SF_vars(ReaderStep(p))
    /\ \A id \in AllIDs : SF_vars(IssueStep(id))

FairSpec == Spec /\ Fairness

\* ------------------------------------------------------------- claims
\* the last step wrote the response of a request `op` that passed the
\* handler's checks of the method, the body and the path
Answered(op) ==
    /\ out.p # 0
    /\ out.req.op = op
    /\ out.resp.msg \notin {"Method not allowed", "Invalid request body",
                            "Invalid Order ID format"}

\* the order id a status or collect request asks about
Asked == out.loc.orderID

Returned == {x \in AllIDs : retCount[x] > 0}

\* enroll requests that have stored their order and not answered yet
Stored == {p \in Procs : pc[p] \in {"e_unlock", "e_spawn"}}

\* enroll requests that have read nextID and not answered yet
Allocating == {p \in Procs : pc[p] \in {"e_inc", "e_store", "e_unlock", "e_spawn"}}

PendingText == GoString(Pending)
IssuedText == GoString(Issued)
RevokedText == GoString(Revoked)

\* C1: the identifiers read from nextID are strictly increasing in the order
\* in which the enroll requests acquire the guard, the first one is 12345,
\* every enroll response carries the identifier its request read, and no
\* identifier is carried by two responses.
C1_IdentifiersIncrease ==
    /\ \A i \in 1 .. Len(allocated) : \A j \in (i + 1) .. Len(allocated) :
          allocated[i] < allocated[j]
    /\ Len(allocated) > 0 => allocated[1] = BaseID
    /\ \A x \in AllIDs : retCount[x] <= 1
    /\ \A x \in Returned : \E i \in 1 .. Len(allocated) : allocated[i] = x
    /\ \A p \in Allocating : \E i \in 1 .. Len(allocated) : allocated[i] = loc[p].orderID
    /\ \A p \in Allocating : \A q \in Allocating \ {p} : loc[p].orderID # loc[q].orderID
    /\ Answered("enroll") /\ out.resp.code = 200 =>
          /\ out.resp.sslId = out.loc.orderID
          /\ out.resp.sslId \in Returned

C1_Witness ==
    /\ Answered("enroll")
    /\ out.resp.sslId = BaseID + 1
    /\ allocated = <<BaseID, BaseID + 1>>
    /\ Returned = {BaseID, BaseID + 1}

\* C2: enroll requests that run concurrently hold pairwise distinct
\* identifiers, none of them one that was already returned; the store holds
\* exactly one order per enroll request that has stored, under the identifier
\* of that request and with its signing request; and once no enroll is in
\* progress the store holds exactly as many orders as identifiers returned.
C2_ConcurrentEnrolls ==
    /\ \A x \in AllIDs : retCount[x] <= 1
    /\ \A p \in Stored : \A q \in Stored \ {p} : loc[p].orderID # loc[q].orderID
    /\ \A p \in Stored : loc[p].orderID \notin Returned
    /\ \A p \in Stored :
          /\ loc[p].orderID \in DOMAIN orders
          /\ orders[loc[p].orderID].ID = loc[p].orderID
          /\ orders[loc[p].orderID].CSR = req[p].csr
    /\ DOMAIN orders = Returned \cup {loc[p].orderID : p \in Stored}
    /\ Cardinality(DOMAIN orders) = Cardinality(Returned) + Cardinality(Stored)
    /\ (\A p \in Procs : req[p].op # "enroll") =>
          /\ DOMAIN orders = Returned
          /\ Cardinality(DOMAIN orders) = Cardinality(Returned)

C2_Witness ==
    /\ \E p \in Procs : \E q \in Procs \ {p} :
          /\ pc[p] = "e_spawn"
          /\ pc[q] = "e_spawn"
          /\ loc[p].orderID # loc[q].orderID
    /\ Cardinality(DOMAIN orders) = 2

\* C3: an order that a revoke has stored to has status Revoked whenever
\* nobody holds the guard exclusively afterwards.
C3_RevokedIsTerminal ==
    \A x \in DOMAIN orders :
        revoked[x] # "no" /\ muW = NoOwner => orders[x].Status = Revoked

\* C4: an order revoked before its issuance goroutine ran is Issued once
\* the goroutine has run (and no revoke has followed), and a collect
\* that begins then releases its certificate.
C4_IssuanceOverwritesRevoked ==
    /\ \A x \in DOMAIN task :
          task[x] = "done" /\ revoked[x] = "early" => orders[x].Status = Issued
    /\ Answered("collect") /\ out.snap.fired /\ revoked[Asked] = "early" =>
          /\ out.resp.code = 200
          /\ out.resp.cert = FakeCert

C4_Witness ==
    /\ Answered("collect")
    /\ out.resp.code = 200
    /\ out.resp.cert = FakeCert
    /\ revoked[Asked] = "early"
    /\ orders[Asked].Status = Issued

\* C5: a status or collect request for X that begins after an enroll has
\* returned X, and answers while the issuance goroutine of X still sleeps or waits
\* and no revoke has stored to X, reports Pending (status) and NotReady
\* (collect).
C5_PendingAfterEnroll ==
    \A op \in {"status", "collect"} :
        (/\ Answered(op)
         /\ out.snap.returned
         /\ task[Asked] \in {"sleep", "wait"}
         /\ revoked[Asked] = "no") =>
            /\ out.resp.status = PendingText
            /\ out.resp.cert = ""
            /\ out.resp.code = IF op = "status" THEN 200 ELSE 400
            /\ op = "status" => out.resp.sslId = Asked
            /\ op = "collect" => out.resp.msg = "Certificate not ready"

C5_Witness ==
    /\ Answered("status")
    /\ out.snap.returned
    /\ task[Asked] = "sleep"
    /\ revoked[Asked] = "no"
    /\ out.resp.status = PendingText

\* what C6 asks of the answer to a request about an order
IssuedAnswer ==
    /\ Answered("status") => out.resp.code = 200 /\ out.resp.status = IssuedText
    /\ Answered("collect") =>
          /\ out.resp.code = 200
          /\ out.resp.cert = orders[Asked].Certificate
          /\ out.resp.cert = FakeCert

\* C6 as stated: every status or collect request for X that begins after the
\* issuance goroutine of X has run reports Issued and the certificate.
C6_IssuedAfterIssuance ==
    (Answered("status") \/ Answered("collect")) /\ out.snap.fired => IssuedAnswer

\* C6 as amended: every status or collect request for X that begins after the
\* issuance goroutine of X has run reports Issued and the certificate stored
\* at creation, as long as no revoke has stored to X since the goroutine ran.
C6_IssuedUntilRevoked ==
    (Answered("status") \/ Answered("collect")) /\ out.snap.fired
        /\ revoked[Asked] # "late" => IssuedAnswer

C6_Witness ==
    /\ Answered("collect")
    /\ out.snap.fired
    /\ revoked[Asked] = "no"
    /\ out.resp.cert = FakeCert

\* thread p takes a step of the revoke it serves
RevokeStepAt(p, at) == pc[p] = at /\ pc'[p] # at

\* C7: a revoke that meets, when it scans, an order whose identifier renders
\* as its sslId stores to that order, leaves it Revoked whatever its status
\* was, and reports success; when the order is already Revoked the revoke
\* changes nothing in the store.
C7_RevokeExisting ==
    /\ [](\A p \in Procs :
            pc[p] = "r_unlock" /\ loc[p].found =>
                /\ orders[loc[p].o].Status = Revoked
                /\ Sprintf(loc[p].o) = req[p].str)
    /\ [](Answered("revoke") /\ out.loc.found =>
            /\ out.resp.code = 200
            /\ out.resp.result = "success"
            /\ orders[out.loc.o].Status = Revoked)
    /\ [][\A p \in Procs :
            /\ (RevokeStepAt(p, "r_wait")
                    /\ \E x \in DOMAIN orders : Sprintf(x) = req[p].str) =>
                  /\ pc'[p] = "r_half"
                  /\ Sprintf(loc'[p].o) = req[p].str
                  /\ (orders[loc'[p].o].Status = Revoked => store' = store)
            /\ RevokeStepAt(p, "r_half") =>
                  /\ pc'[p] = "r_unlock"
                  /\ loc'[p].found
                  /\ (orders[loc[p].o].Status = Revoked => store' = store)
            /\ (RevokeStepAt(p, "r_unlock") /\ loc[p].found) =>
                  /\ out'.resp.result = "success"
                  /\ store' = store]_vars

\* a revoke is half way through storing to an order that was Revoked already
C7_Witness ==
    \E p \in Procs :
        /\ pc[p] = "r_half"
        /\ loc[p].o \in DOMAIN task
        /\ task[loc[p].o] = "done"
        /\ orders[loc[p].o].Status = Revoked

\* C8: a revoke that meets, when it scans, no order whose identifier renders
\* as its sslId reports failure ("Order not found") and none of its steps
\* changes the orders or the next identifier; a revoke reports failure only
\* then.
C8_RevokeNoMatch ==
    /\ [](\A p \in Procs :
            pc[p] = "r_unlock" /\ ~loc[p].found =>
                \A x \in DOMAIN orders : Sprintf(x) # req[p].str)
    /\ [](Answered("revoke") /\ ~out.loc.found =>
            /\ out.resp.code = 200
            /\ out.resp.result = "failure"
            /\ out.resp.msg = "Order not found")
    /\ [][\A p \in Procs :
            /\ (RevokeStepAt(p, "r_wait")
                    /\ \A x \in DOMAIN orders : Sprintf(x) # req[p].str) =>
                  /\ pc'[p] = "r_unlock"
                  /\ ~loc'[p].found
                  /\ store' = store
            /\ (RevokeStepAt(p, "r_unlock") /\ ~loc[p].found) =>
                  /\ out'.resp.result = "failure"
                  /\ store' = store
            /\ (pc[p] = "idle" /\ pc'[p] = "r_lock") => store' = store
            /\ RevokeStepAt(p, "r_lock") => store' = store]_vars

C8_Witness ==
    /\ Answered("revoke")
    /\ out.resp.result = "failure"
    /\ out.req.str = <<"0">> \o Sprintf(BaseID)
    /\ BaseID \in DOMAIN orders

\* C9 as stated: a status or collect request for an identifier that no enroll
\* response has carried reports NotFound.
C9_NotFoundUnlessReturned ==
    \A op \in {"status", "collect"} :
        Answered(op) /\ Asked \notin Returned => out.resp.code = 404

GetOps == {"status", "collect"}

\* C9 as amended: a status or collect request for an identifier under which
\* no enroll has stored an order reports NotFound, never a status, NotReady
\* or a certificate; and no step of a status or collect request changes the
\* orders or the next identifier.
C9_NotFoundUnlessStored ==
    /\ [](\A op \in GetOps :
            Answered(op) /\ Asked \notin DOMAIN orders =>
                /\ out.resp.code = 404
                /\ out.resp.msg = "Order not found"
                /\ out.resp.status = <<>>
                /\ out.resp.cert = "")
    /\ [][\A p \in Procs :
            (req[p].op \in GetOps \/ req'[p].op \in GetOps) /\ pc'[p] # pc[p] =>
                store' = store]_vars

C9_Witness ==
    /\ Answered("status")
    /\ out.resp.code = 404
    /\ Asked \notin DOMAIN orders
    /\ DOMAIN orders # {}

\* C10: a collect response carries a certificate body only when the status
\* the request read was Issued, which the issuance goroutine had stored by
\* then; for an order it found with any other status the response is
\* NotReady (400), and it is NotFound (404) exactly when it found no order.
C10_CertificateOnlyIfIssued ==
    Answered("collect") =>
        /\ out.resp.cert # "" =>
              /\ out.resp.code = 200
              /\ out.loc.ok
              /\ out.loc.st = Issued
              /\ Asked \in DOMAIN task
              /\ task[Asked] \in {"stored", "done"}
              /\ out.resp.cert = orders[Asked].Certificate
        /\ out.loc.ok /\ out.resp.cert = "" =>
              /\ out.resp.code = 400
              /\ out.resp.msg = "Certificate not ready"
        /\ out.loc.ok /\ (Asked \notin DOMAIN task \/ task[Asked] \in {"sleep", "wait"}) =>
              /\ out.resp.code = 400
              /\ out.resp.status \in {PendingText, RevokedText}
        /\ out.resp.code = 404 <=> ~out.loc.ok

C10_Witness ==
    /\ Answered("collect")
    /\ out.loc.ok
    /\ out.resp.code = 400
    /\ out.resp.status = RevokedText

\* where a handler thread is when its next step loads a word of order.Status
\* or reads order.Certificate
FieldReads == {"s_load", "s_load2", "c_load", "c_load2", "c_msg", "c_msg2", "c_cert"}

\* where a handler thread is when its next step reads or writes nextID, the
\* map or an order's fields in handleEnroll or handleRevoke
FieldWrites == {"e_inc", "e_store", "r_half"}

\* C11: a handler thread about to read an order's status or certificate holds
\* the guard shared, and a handler thread or issuance goroutine about to write
\* the store holds it exclusively.
C11_AccessUnderGuard ==
    /\ \A p \in Procs : pc[p] \in FieldReads => p \in muR
    /\ \A p \in Procs : pc[p] \in FieldWrites => muW = p
    /\ \A x \in DOMAIN task : task[x] = "half" => muW = x

\* C12: every stored order's issuance goroutine eventually runs to its end,
\* whatever requests run meanwhile; a goroutine is never cancelled or
\* restarted, and its one pass stores Issued over whatever status it finds.
C12_IssuanceFires ==
    /\ \A x \in AllIDs :
          (x \in DOMAIN orders) ~> (x \in DOMAIN task /\ task[x] = "done")
    /\ [][\A x \in DOMAIN task :
            /\ x \in DOMAIN task'
            /\ task[x] # "sleep" => task'[x] # "sleep"
            /\ task[x] = "done" => task'[x] = "done"
            /\ (task[x] = "sleep" /\ task'[x] # "sleep") =>
                  /\ task'[x] = "wait"
                  /\ orders' = orders
            /\ (task[x] = "wait" /\ task'[x] # "wait") =>
                  /\ task'[x] = "half"
                  /\ orders'[x].Status \in
                        {StoreWord(orders[x].Status, Issued, w) : w \in {"ptr", "len"}}
            /\ (task[x] = "half" /\ task'[x] # "half") =>
                  /\ task'[x] = "stored"
                  /\ orders'[x].Status = Issued
            /\ (task[x] = "stored" /\ task'[x] # "stored") =>
                  /\ task'[x] = "done"
                  /\ orders'[x].Status = Issued]_vars

\* the goroutine of an order has run although a revoke stored to the order
\* while it slept
C12_Witness ==
    \E x \in DOMAIN task :
        /\ task[x] = "done"
        /\ revoked[x] = "early"
        /\ muW = NoOwner
        /\ orders[x].Status = Issued

\* C13: an enroll that has released the guard never waits: its response step
\* is enabled although the issuance goroutine of its order does not even
\* exist yet; the order is in the store from then on, Pending until the
\* goroutine or a revoke stores to it; and a status, collect or revoke
\* request that looks the identifier up while the enroll has not answered
\* yet finds the order.
C13_EnrollDoesNotWait ==
    /\ [](\A p \in Procs : pc[p] = "e_spawn" =>
            /\ muW # p
            /\ ENABLED EnrollSpawn(p)
            /\ loc[p].orderID \in DOMAIN orders
            /\ loc[p].orderID \notin DOMAIN task
            /\ revoked[loc[p].orderID] = "no" =>
                  orders[loc[p].orderID].Status = Pending)
    /\ [](Answered("enroll") /\ out.resp.code = 200 =>
            /\ out.resp.sslId \in DOMAIN orders
            /\ out.resp.sslId \in DOMAIN task
            /\ (task[out.resp.sslId] \in {"sleep", "wait"}
                    /\ revoked[out.resp.sslId] = "no") =>
                  orders[out.resp.sslId].Status = Pending)
    /\ [][\A p \in Procs : \A q \in Procs \ {p} :
            (pc[p] = "e_spawn" /\ pc'[q] # pc[q]) =>
                /\ (pc[q] \in {"s_rlock", "c_rlock"}
                        /\ loc[q].orderID = loc[p].orderID) =>
                      /\ loc'[q].ok
                      /\ loc'[q].o = loc[p].orderID
                /\ (pc[q] = "r_wait" /\ req[q].str = Sprintf(loc[p].orderID)) =>
                      /\ pc'[q] = "r_half"
                      /\ loc'[q].o = loc[p].orderID]_vars

\* a status request is answered with pending for an order whose enroll has
\* released the guard and not answered yet
C13_Witness ==
    /\ Answered("status")
    /\ out.resp.code = 200
    /\ out.resp.status = PendingText
    /\ Asked \notin Returned
    /\ \E p \in Procs : pc[p] = "e_spawn" /\ loc[p].orderID = Asked

\* C14: an order in the store stays in the store under its key, and no step
\* of any operation (an enroll of another order, the issuance goroutines,
\* revoke, status, collect) changes its ID, CSR, Certificate or CreatedAt,
\* which are the id its enroll read, the certificate generated for it and
\* the time read at its creation.
C14_OrdersPersist ==
    /\ [](\A x \in DOMAIN orders :
            /\ orders[x].ID = x
            /\ orders[x].CSR \in CSRs
            /\ orders[x].Certificate = FakeCert
            /\ orders[x].CreatedAt = (x - BaseID) + 1)
    /\ [][\A x \in DOMAIN orders :
            /\ x \in DOMAIN orders'
            /\ orders'[x].ID = orders[x].ID
            /\ orders'[x].CSR = orders[x].CSR
            /\ orders'[x].Certificate = orders[x].Certificate
            /\ orders'[x].CreatedAt = orders[x].CreatedAt]_vars

\* the first order has been issued and then revoked, a second order has been
\* created meanwhile, and a collect of the first order is answered
C14_Witness ==
    /\ DOMAIN orders = {BaseID, BaseID + 1}
    /\ task[BaseID] = "done"
    /\ revoked[BaseID] = "late"
    /\ orders[BaseID].Status = Revoked
    /\ orders[BaseID].CreatedAt = 1
    /\ Answered("collect")
    /\ Asked = BaseID

\* order x is between the two word stores of an assignment to its Status
MidStore(x) ==
    \/ x \in DOMAIN task /\ task[x] = "half"
    \/ \E p \in Procs : pc[p] = "r_half" /\ loc[p].o = x

\* C15: outside the two word stores of an assignment, every order's status
\* is Pending, Issued or Revoked, and it is Pending exactly as long as
\* neither its issuance goroutine nor a revoke has stored to it; no step
\* makes a status Pending that was not Pending.
C15_NeverPendingAgain ==
    /\ [](\A x \in DOMAIN orders : ~MidStore(x) =>
            /\ orders[x].Status \in {Pending, Issued, Revoked}
            /\ orders[x].Status = Pending <=>
                  /\ x \notin DOMAIN task \/ task[x] \in {"sleep", "wait"}
                  /\ revoked[x] = "no")
    /\ [][\A x \in DOMAIN orders :
            /\ orders[x].Status # Pending => orders'[x].Status # Pending
            /\ orders[x].Status.ptr # "pending" => orders'[x].Status.ptr # "pending"]_vars

\* a status request reports issued for an order that was revoked while its
\* issuance goroutine slept
C15_Witness ==
    /\ Answered("status")
    /\ out.resp.status = IssuedText
    /\ revoked[Asked] = "early"
    /\ task[Asked] = "done"

\* the sslId strings that fmt.Sscanf reads as an id whose rendering they are not
Unrendered == {s \in SslIds : ~Sscanf(s).err /\ Sprintf(Sscanf(s).val) # s}

\* C16: no step of a revoke changes an order whose identifier does not
\* render as the sslId, adds or removes an order or changes the next
\* identifier, so a revoke changes at most one order; a revoke whose sslId
\* parses to an identifier without being its rendering (leading zero, sign,
\* leading blank, trailing characters) finds nothing, changes nothing and
\* reports failure.
C16_RevokeOneOrder ==
    /\ [][\A p \in Procs : (req[p].op = "revoke" /\ pc'[p] # pc[p]) =>
            /\ nextID' = nextID
            /\ DOMAIN orders' = DOMAIN orders
            /\ \A x \in DOMAIN orders :
                  Sprintf(x) # req[p].str => orders'[x] = orders[x]
            /\ \A x \in DOMAIN orders : \A y \in DOMAIN orders \ {x} :
                  orders'[x] = orders[x] \/ orders'[y] = orders[y]
            /\ req[p].str \in Unrendered => orders' = orders]_vars
    /\ [](\A p \in Procs :
            /\ pc[p] = "r_half" => req[p].str \notin Unrendered
            /\ pc[p] = "r_unlock" =>
                  /\ req[p].str \notin Unrendered \/ ~loc[p].found
                  /\ loc[p].found <=> \E x \in DOMAIN orders : Sprintf(x) = req[p].str)
    /\ [](Answered("revoke") /\ out.req.str \in Unrendered =>
            /\ ~out.loc.found
            /\ out.resp.result = "failure"
            /\ out.resp.msg = "Order not found")

\* a revoke whose sslId is the first order's identifier with a sign, a
\* leading blank or a trailing character reports failure while both orders
\* are in the store
C16_Witness ==
    /\ Answered("revoke")
    /\ out.req.str \in NonCanonical
    /\ Sscanf(out.req.str).val \in DOMAIN orders
    /\ out.loc.orderID = BaseID
    /\ out.resp.result = "failure"
    /\ DOMAIN orders = {BaseID, BaseID + 1}

\* C17: the status named in a NotReady answer of collect is Pending or
\* Revoked.
C17_NotReadyNamesUnissued ==
    (/\ Answered("collect")
     /\ out.loc.ok
     /\ out.resp.msg = "Certificate not ready") =>
        out.resp.status \in {PendingText, RevokedText}

\* the issuance goroutine of order x has stored both words of "issued"
Fired(x) == x \in DOMAIN task /\ task[x] \in {"stored", "done"}

\* C18: a collect request is past its status test, and a collect response
\* carries a certificate body, only for an order whose issuance goroutine
\* has stored Issued before; the body is the certificate of that order.
C18_CertificateAfterIssuance ==
    /\ \A p \in Procs : pc[p] = "c_cert" =>
          /\ loc[p].o = loc[p].orderID
          /\ Fired(loc[p].o)
    /\ Answered("collect") /\ out.resp.cert # "" =>
          /\ Fired(Asked)
          /\ out.resp.cert = orders[Asked].Certificate
    /\ \A x \in DOMAIN orders :
          ~Fired(x) /\ Answered("collect") /\ Asked = x => out.resp.code = 400

\* a collect releases the certificate of an order whose goroutine has stored
\* "issued" and still holds the guard
C18_Witness ==
    /\ Answered("collect")
    /\ out.resp.cert = FakeCert
    /\ task[Asked] = "stored"
    /\ muW = Asked

\* no enroll request is between mu.Lock and mu.Unlock
NoEnrollGuarded == \A p \in Procs : pc[p] \notin {"e_inc", "e_store", "e_unlock"}

\* C19: whenever no enroll holds the guard, the keys of the store are
\* exactly 12345 .. nextID-1, every order is stored under its own ID, and the
\* store holds one order per enroll that has been through its guarded
\* section; inside the guarded section the newest key is missing until the
\* order is stored.
C19_ContiguousKeys ==
    /\ NoEnrollGuarded =>
          /\ DOMAIN orders = BaseID .. (nextID - 1)
          /\ \A x \in DOMAIN orders : orders[x].ID = x
          /\ Cardinality(DOMAIN orders) = Len(allocated)
          /\ Len(allocated) = Cardinality(Returned)
                                + Cardinality({p \in Procs : pc[p] = "e_spawn"})
    /\ \A p \in Procs : pc[p] = "e_store" =>
          /\ DOMAIN orders = BaseID .. (nextID - 2)
          /\ loc[p].orderID = nextID - 1

\* two enrolls have been through their guarded sections, one of them has
\* not answered yet
C19_Witness ==
    /\ NoEnrollGuarded
    /\ nextID = BaseID + 2
    /\ DOMAIN orders = {BaseID, BaseID + 1}
    /\ Cardinality(Returned) = 1
    /\ \E p \in Procs : pc[p] = "e_spawn"

\* where a handler thread is between the return of mu.Lock and mu.Unlock
LockedPcs == {"e_inc", "e_store", "e_unlock", "r_half", "r_unlock"}

\* where a handler thread is inside mu.Lock, the one writer already
WriterPcs == {"e_wait", "r_wait"}

\* where a handler thread is between mu.RLock and mu.RUnlock
RLockedPcs == {"s_runlock", "c_runlock"}

\* C20: whoever holds the guard exclusively holds it alone: no thread holds
\* it shared and no other writer is between Lock and Unlock; a handler
\* thread holds the guard exactly between its acquisition and its release,
\* a goroutine exactly while it stores, and an idle thread, a thread that
\* waits or a finished goroutine holds nothing; under fair scheduling every
\* request that began is answered, so none waits for the guard forever, and
\* whoever is between Lock and Unlock gets through.
C20_GuardReleased ==
    /\ [](\A p \in Procs :
            /\ p \in muR <=> pc[p] \in RLockedPcs
            /\ muW = p <=> pc[p] \in LockedPcs \cup WriterPcs
            /\ pc[p] \in LockedPcs => muR = {})
    /\ [](\A x \in AllIDs :
            /\ muW = x <=> (x \in DOMAIN task /\ task[x] \in {"wait", "half", "stored"})
            /\ (x \in DOMAIN task /\ task[x] \in {"half", "stored"}) => muR = {})
    /\ \A p \in Procs : (pc[p] # "idle") ~> (pc[p] = "idle")
    /\ (muW # NoOwner) ~> (muW = NoOwner)

\* a status or collect request and an enroll or revoke request both wait
\* for the guard while an issuance goroutine holds it
C20_Witness ==
    /\ muW \in DOMAIN task
    /\ task[muW] = "stored"
    /\ \E p \in Procs : pc[p] \in {"s_rlock", "c_rlock"}
    /\ \E p \in Procs : pc[p] \in {"e_lock", "r_lock"}

====
